---- MODULE Spec2Model ----
(***************************************************************************)
(* Flake8Lint (Sublime Text plugin, Flake8Lint.py) as a state machine.     *)
(*                                                                         *)
(* Strings are sequences of one-character strings.  A view's buffer is a   *)
(* sequence of full lines (each with its line terminator), rows are        *)
(* 0-based as in the editor API, positions are offsets in the buffer.      *)
(* A linter error is <<line (1-based), column, error text>>.               *)
(***************************************************************************)
EXTENDS Integers, Sequences, FiniteSets, TLC

\* ------------------------------------------------------------------------
\* Bounds of the model
\* ------------------------------------------------------------------------

\* longest error list a linter call returns in ShowSpec
MaxErrs == 2

\* on_load events per view
MaxLoads == 1

\* the views (view ids) of the editor
Views == {1, 2}

\* ------------------------------------------------------------------------
\* Strings
\* ------------------------------------------------------------------------

\* str.strip() / str.lstrip() with no argument remove whitespace
IsWhitespace(c) == c \in {" ", "\t", "\n", "\r"}

\* the positions of s that hold no whitespace
Inked(s) == {i \in 1..Len(s) : ~IsWhitespace(s[i])}

Least(S) == CHOOSE x \in S : \A y \in S : x <= y

Greatest(S) == CHOOSE x \in S : \A y \in S : y <= x

LStrip(s) ==
    IF Inked(s) = {} THEN <<>> ELSE SubSeq(s, Least(Inked(s)), Len(s))

Strip(s) ==
    IF Inked(s) = {} THEN <<>>
    ELSE SubSeq(s, Least(Inked(s)), Greatest(Inked(s)))

\* str.rstrip('\r\n')
RStripNewline(s) ==
    LET kept == {i \in 1..Len(s) : s[i] \notin {"\r", "\n"}}
    IN IF kept = {} THEN <<>> ELSE SubSeq(s, 1, Greatest(kept))

\* str.lower() on the letters the buffers use
LowerChar(c) ==
    CASE c = "N" -> "n"
      [] c = "O" -> "o"
      [] c = "Q" -> "q"
      [] c = "A" -> "a"
      [] c = "X" -> "x"
      [] OTHER -> c

Lower(s) == [i \in 1..Len(s) |-> LowerChar(s[i])]

EndsWith(s, suffix) ==
    /\ Len(s) >= Len(suffix)
    /\ SubSeq(s, Len(s) - Len(suffix) + 1, Len(s)) = suffix

StartsWith(s, prefix) ==
    /\ Len(s) >= Len(prefix)
    /\ SubSeq(s, 1, Len(prefix)) = prefix

NoqaTag == <<"#", " ", "n", "o", "q", "a">>

\* skip_line without the lower(): a '# NOQA' comment is not recognised
skip_line_case_sensitive(line) == EndsWith(Strip(line), NoqaTag)

skip_line(line) == EndsWith(Lower(Strip(line)), NoqaTag)

\* code, _ = error_text.split(' ', 1): the text before the first space
ErrorCode(text) ==
    LET spaces == {i \in 1..Len(text) : text[i] = " "}
    IN IF spaces = {} THEN text ELSE SubSeq(text, 1, Least(spaces) - 1)

\* ' / '.join(errors)
RECURSIVE Join(_)
Join(errors) ==
    IF errors = <<>> THEN <<>>
    ELSE IF Len(errors) = 1 THEN errors[1]
    ELSE errors[1] \o <<" ", "/", " ">> \o Join(Tail(errors))

\* 'flake8: %s' % ' / '.join(errors)
StatusText(errors) ==
    <<"f", "l", "a", "k", "e", "8", ":", " ">> \o Join(errors)

\* ------------------------------------------------------------------------
\* The editor's view API on a buffer
\* ------------------------------------------------------------------------

RECURSIVE LineStart(_, _)
\* offset of the first character of `row`
LineStart(buf, row) ==
    IF row <= 0 THEN 0 ELSE LineStart(buf, row - 1) + Len(buf[row])

\* view.text_point(row, col)
text_point(buf, row, col) == LineStart(buf, row) + col

\* view.rowcol(point)[0]
rowcol_row(buf, point) ==
    LET rows == {r \in 0..(Len(buf) - 1) : LineStart(buf, r) <= point}
    IN CHOOSE r \in rows : \A q \in rows : q <= r

\* view.substr(view.full_line(point))
full_line_text(buf, point) == buf[rowcol_row(buf, point) + 1]

\* ------------------------------------------------------------------------
\* Buffers, error texts and settings used as inputs
\* ------------------------------------------------------------------------

\* "  x\n" / "y # NOQA \n" / "z #noqa\n" / "w  # noqa"
Buffer1 ==
    << <<" ", " ", "x", "\n">>,
       <<"y", " ", "#", " ", "N", "O", "Q", "A", " ", "\n">>,
       <<"z", " ", "#", "n", "o", "q", "a", "\n">>,
       <<"w", " ", " ", "#", " ", "n", "o", "q", "a">> >>

TextE501 == <<"E", "5", "0", "1", " ", "l">>
TextW291 == <<"W", "2", "9", "1", " ", "t">>

PrefE == <<"E">>
PrefW2 == <<"W", "2">>
PrefE501 == <<"E", "5", "0", "1">>

\* dict.get(key, default) on a settings dictionary (a function on its keys)
Get(d, key, default) == IF key \in DOMAIN d THEN d[key] ELSE default

\* `d.get(key) or []`
GetOrEmpty(d, key) == IF key \in DOMAIN d THEN d[key] ELSE <<>>

\* ------------------------------------------------------------------------
\* Flake8LintCommand.show_errors
\* ------------------------------------------------------------------------

\* [c for c in codes if code.startswith(c)] is not empty
AnyPrefix(codes, code) == \E i \in 1..Len(codes) : StartsWith(code, codes[i])

\* `if select and [c for c in select if code.startswith(c)]: continue`
SelectSkips(select, code) == select # <<>> /\ AnyPrefix(select, code)

\* `if ignore and [c for c in ignore if code.startswith(c)]: continue`
IgnoreSkips(ignore, code) == ignore # <<>> /\ AnyPrefix(ignore, code)

ValidMarks == {"", "dot", "circle", "bookmark", "cross"}

\* mark = settings.get('gutter_marks', ''), reset to '' when not a known mark
GutterMark(gs) ==
    LET mark == Get(gs, "gutter_marks", "")
    IN IF mark \notin ValidMarks THEN "" ELSE mark

\* view_errors.setdefault(line, []).append(text)
DictAppend(d, k, x) ==
    IF k \in DOMAIN d
    THEN [d EXCEPT ![k] = Append(@, x)]
    ELSE [j \in (DOMAIN d) \cup {k} |-> IF j = k THEN <<x>> ELSE d[j]]

InSeq(x, s) == \E i \in 1..Len(s) : s[i] = x

\* the highlighted region of error e on its line
ErrorRegion(buf, e) ==
    LET tp == text_point(buf, e[1] - 1, 0)
        line_text == RStripNewline(full_line_text(buf, tp))
        line_length == Len(line_text)
        start == IF ErrorCode(e[3]) = PrefE501
                 THEN tp + e[2]
                 ELSE tp + line_length - Len(LStrip(line_text))
    IN <<start, tp + line_length>>

\* one pass of the `for e in self.errors_list` loop
ShowLoopBody(acc, e, buf, vs, gs) ==
    LET current_line == e[1] - 1
        error_text == e[3]
        tp == text_point(buf, current_line, 0)
        line_text == Strip(full_line_text(buf, tp))
        code == ErrorCode(error_text)
        error == <<error_text, <<current_line + 1, line_text>>>>
        is_popup == Get(gs, "popup", TRUE)
        is_highlight == Get(gs, "highlight", FALSE)
    IN IF skip_line(line_text) THEN acc
       ELSE IF SelectSkips(GetOrEmpty(vs, "select"), code) THEN acc
       ELSE IF IgnoreSkips(GetOrEmpty(vs, "ignore"), code) THEN acc
       ELSE IF InSeq(error, acc.errors_to_show) THEN acc
       ELSE [errors_to_show |-> Append(acc.errors_to_show, error),
             errors_list_filtered |->
                 IF is_popup THEN Append(acc.errors_list_filtered, e)
                 ELSE acc.errors_list_filtered,
             regions |->
                 IF is_highlight \/ GutterMark(gs) # ""
                 THEN Append(acc.regions, ErrorRegion(buf, e))
                 ELSE acc.regions,
             view_errors |-> DictAppend(acc.view_errors, current_line, error_text)]

RECURSIVE ShowLoop(_, _, _, _, _)
ShowLoop(acc, errors, buf, vs, gs) ==
    IF errors = <<>> THEN acc
    ELSE ShowLoop(ShowLoopBody(acc, Head(errors), buf, vs, gs),
                  Tail(errors), buf, vs, gs)

ShowLoopInit ==
    [errors_to_show |-> <<>>, errors_list_filtered |-> <<>>,
     regions |-> <<>>, view_errors |-> <<>>]

\* ------------------------------------------------------------------------
\* State
\* ------------------------------------------------------------------------

VARIABLES
    buffer,              \* view id -> the text of the view
    ERRORS_IN_VIEWS,     \* the module's dictionary: view id -> (row -> texts)
    regions,             \* view id -> the view's 'flake8-errors' regions
    status,              \* view id -> the view's 'flake8-tip' status (<<>>: none)
    sel,                 \* view id -> position of the cursor (NoSel: no selection)
    errors_list,         \* view id -> self.errors_list of the view's command
    panel,               \* view id -> the open quick panel (its items) or NoPanel
    last_selected_line,  \* Flake8LintBackground._last_selected_line
    window,              \* view id -> "none" | "attached" | "closed"
    loading,             \* view id -> view.is_loading()
    active,              \* id of the window's active view (0: some other view)
    timers,              \* pending set_timeout callbacks, one record each
    polls,               \* per on_load event: what its polling has done so far
    lastOp               \* history: the last handler that ran, with its inputs

vars == <<buffer, ERRORS_IN_VIEWS, regions, status, sel, errors_list, panel,
          last_selected_line, window, loading, active, timers, polls, lastOp>>

NoSel == -1
NoPanel == [open |-> FALSE, items |-> <<>>]
NoLine == -1

\* the part of the state the command and the status bar helpers work on
World ==
    [eiv |-> ERRORS_IN_VIEWS, regions |-> regions, status |-> status,
     sel |-> sel, errors_list |-> errors_list, panel |-> panel]

\* d[k] = x on a dictionary
SetKey(d, k, x) == [j \in (DOMAIN d) \cup {k} |-> IF j = k THEN x ELSE d[j]]

Event(name, depth) == [ev |-> name, depth |-> depth]

\* ------------------------------------------------------------------------
\* Status bar helpers
\* ------------------------------------------------------------------------

\* get_current_line(view): NoLine stands for Python's None
get_current_line(w, v) ==
    IF w.sel[v] = NoSel THEN NoLine ELSE rowcol_row(buffer[v], w.sel[v])

clear_statusbar(w, v) == [w EXCEPT !.status[v] = <<>>]

update_statusbar(w, v) ==
    IF v \notin DOMAIN w.eiv THEN w
    ELSE IF w.sel[v] = NoSel THEN w
    ELSE LET current_line == get_current_line(w, v)
             view_errors == w.eiv[v]
         IN IF current_line \in DOMAIN view_errors
            THEN [w EXCEPT !.status[v] = StatusText(view_errors[current_line])]
            ELSE clear_statusbar(w, v)

\* ------------------------------------------------------------------------
\* Flake8LintCommand
\* ------------------------------------------------------------------------

show_errors(w, v, vs, gs, depth) ==
    LET r == ShowLoop(ShowLoopInit, w.errors_list[v], buffer[v], vs, gs)
        is_highlight == Get(gs, "highlight", FALSE)
        is_popup == Get(gs, "popup", TRUE)
        adds == is_highlight \/ GutterMark(gs) # ""
    IN [w |-> [w EXCEPT !.errors_list[v] = r.errors_list_filtered,
                        !.eiv = SetKey(w.eiv, v, r.view_errors),
                        !.regions[v] = IF adds THEN r.regions ELSE @,
                        !.panel[v] = IF is_popup
                                      THEN [open |-> TRUE, items |-> r.errors_to_show]
                                      ELSE @],
        trace |-> (IF adds THEN <<Event("add_regions", depth)>> ELSE <<>>)
                  \o (IF is_popup THEN <<Event("show_quick_panel", depth)>>
                      ELSE <<>>)]

\* fnmatch(path_part, pattern) for literal patterns and the pattern '*'
fnmatch(part, pattern) == pattern = "*" \/ pattern = part

\* filename_match(filename, patterns), the path given as its parts
filename_match(parts, patterns) ==
    \E i \in 1..Len(parts) : \E j \in 1..Len(patterns) :
        fnmatch(parts[i], patterns[j])

\* the check list of run(): the basename and the paths relative to the
\* window's folders
CheckPaths(filename, folders) ==
    {<<filename[Len(filename)]>>}
    \cup {SubSeq(filename, Len(f) + 1, Len(filename)) :
             f \in {g \in folders : Len(g) < Len(filename)
                                    /\ SubSeq(filename, 1, Len(g)) = g}}

\* `if patterns:` on the 'ignore_files' value
Truthy(patterns) == patterns.type # "list" \/ patterns.items # <<>>

NoPatterns == [type |-> "list", items |-> <<>>]

\* run() with the 'ignore_files' check moved before the two erase calls
run_to_save_ignore_first(w, v, inp, depth) ==
    LET patterns == Get(inp.vs, "ignore_files", NoPatterns)
        w1 == [w EXCEPT !.regions[v] = <<>>, !.status[v] = <<>>]
        t1 == <<Event("erase_regions", depth), Event("erase_status", depth)>>
    IN IF ~inp.named \/ ~inp.python \/ inp.skip_file
       THEN [w |-> w, go |-> FALSE, trace |-> <<>>]
       ELSE IF ~Truthy(patterns)
       THEN [w |-> w1, go |-> TRUE, trace |-> t1]
       ELSE IF patterns.type # "list"
       THEN [w |-> w1, go |-> TRUE,
             trace |-> <<Event("dialog_ignore_files", depth)>> \o t1]
       ELSE IF \E path \in CheckPaths(inp.filename, inp.folders) :
                   filename_match(path, patterns.items)
       THEN [w |-> w, go |-> FALSE, trace |-> <<Event("ignored", depth)>>]
       ELSE [w |-> w1, go |-> TRUE, trace |-> t1]

\* run() from its first line to the end of the 'ignore_files' check
run_to_save(w, v, inp, depth) ==
    IF ~inp.named \/ ~inp.python \/ inp.skip_file
    THEN [w |-> w, go |-> FALSE, trace |-> <<>>]
    ELSE LET w1 == [w EXCEPT !.regions[v] = <<>>, !.status[v] = <<>>]
             t1 == <<Event("erase_regions", depth), Event("erase_status", depth)>>
             patterns == Get(inp.vs, "ignore_files", NoPatterns)
         IN IF ~Truthy(patterns)
            THEN [w |-> w1, go |-> TRUE, trace |-> t1]
            ELSE IF patterns.type # "list"
            THEN [w |-> w1, go |-> TRUE,
                  trace |-> Append(t1, Event("dialog_ignore_files", depth))]
            ELSE IF \E path \in CheckPaths(inp.filename, inp.folders) :
                        filename_match(path, patterns.items)
            THEN [w |-> w1, go |-> FALSE,
                  trace |-> Append(t1, Event("ignored", depth))]
            ELSE [w |-> w1, go |-> TRUE, trace |-> t1]

\* the dialogs of run() with the interpreter's os.path.exists test inverted
InterpreterDialogs_exists_inverted(interpreter, inp, depth) ==
    (IF interpreter # "auto" /\ inp.interp_exists
     THEN <<Event("dialog_interpreter", depth)>> ELSE <<>>)
    \o (IF ~inp.linter_in_plugin /\ ~inp.linter_in_packages
        THEN <<Event("dialog_linter", depth)>> ELSE <<>>)

\* the dialogs of run() for an external interpreter, in the order shown
InterpreterDialogs(interpreter, inp, depth) ==
    (IF interpreter # "auto" /\ ~inp.interp_exists
     THEN <<Event("dialog_interpreter", depth)>> ELSE <<>>)
    \o (IF ~inp.linter_in_plugin /\ ~inp.linter_in_packages
        THEN <<Event("dialog_linter", depth)>> ELSE <<>>)

\* run() from 'try to get interpreter' to its end
run_from_interp(w, v, inp, depth) ==
    LET interpreter == Get(inp.vs, "python_interpreter", "auto")
        internal == interpreter = "" \/ interpreter = "internal"
        t1 == IF internal
              THEN <<Event("lint", depth)>>
              ELSE Append(InterpreterDialogs(interpreter, inp, depth),
                          Event("lint_external", depth))
        w1 == [w EXCEPT !.errors_list[v] = inp.report]
    IN IF w1.errors_list[v] # <<>>
       THEN LET r == show_errors(w1, v, inp.vs, inp.gs, depth)
            IN [w |-> r.w, trace |-> t1 \o r.trace]
       ELSE IF Get(inp.gs, "report_on_success", FALSE)
       THEN [w |-> w1, trace |-> Append(t1, Event("dialog_success", depth))]
       ELSE [w |-> w1, trace |-> t1]

\* Flake8LintCommand.run on a view that is not dirty
run_clean(w, v, inp, depth) ==
    LET a == run_to_save(w, v, inp, depth)
    IN IF ~a.go THEN [w |-> a.w, trace |-> a.trace]
       ELSE LET b == run_from_interp(a.w, v, inp, depth)
            IN [w |-> b.w, trace |-> a.trace \o b.trace]

\* Flake8LintBackground.on_post_save; the view was just saved
on_post_save(w, v, inp, depth) ==
    IF inp.scratch THEN [w |-> w, trace |-> <<>>]
    ELSE IF Get(inp.gs, "lint_on_save", TRUE)
    THEN run_clean(w, v, inp, depth)
    ELSE [w |-> w, trace |-> <<>>]

\* Flake8LintCommand.run; run_command('save') on a dirty view makes the
\* editor call on_post_save before it returns
run(w, v, inp) ==
    LET a == run_to_save(w, v, inp, 0)
    IN IF ~a.go THEN [w |-> a.w, trace |-> a.trace]
       ELSE LET s == IF inp.dirty
                     THEN on_post_save(a.w, v, inp, 1)
                     ELSE [w |-> a.w, trace |-> <<>>]
                b == run_from_interp(s.w, v, inp, 0)
            IN [w |-> b.w,
                trace |-> a.trace
                          \o (IF inp.dirty THEN <<Event("save", 0)>> ELSE <<>>)
                          \o s.trace \o b.trace]

\* Flake8LintCommand.error_selected; raised: the IndexError of
\* self.errors_list[item_selected]
error_selected(w, v, item_selected) ==
    IF item_selected = -1 THEN [w |-> w, raised |-> FALSE]
    ELSE LET w1 == [w EXCEPT !.sel[v] = NoSel]
         IN IF item_selected >= Len(w1.errors_list[v])
            THEN [w |-> w1, raised |-> TRUE]
            ELSE LET error == w1.errors_list[v][item_selected + 1]
                     region_begin == text_point(buffer[v], error[1] - 1, error[2])
                     w2 == [w1 EXCEPT !.sel[v] = region_begin]
                 IN [w |-> update_statusbar(w2, v), raised |-> FALSE]

\* Flake8LintBackground.on_selection_modified
on_selection_modified(w, last, v, scratch) ==
    IF scratch THEN [w |-> w, last |-> last]
    ELSE LET current_line == get_current_line(w, v)
         IN IF current_line = NoLine
            THEN IF last # NoLine
                 THEN [w |-> clear_statusbar(w, v), last |-> NoLine]
                 ELSE [w |-> w, last |-> last]
            ELSE IF current_line # last
            THEN [w |-> update_statusbar(w, v), last |-> current_line]
            ELSE [w |-> w, last |-> last]

\* ------------------------------------------------------------------------
\* Inputs of a lint run: the file, the settings, what the file system holds
\* and what the linter (lint / lint_external of the lint module) reports
\* ------------------------------------------------------------------------

\* "  x\n" / "y # NOQA \n" / "zz\n"
ViewBuffer ==
    << <<" ", " ", "x", "\n">>,
       <<"y", " ", "#", " ", "N", "O", "Q", "A", " ", "\n">>,
       <<"z", "z", "\n">> >>

ErrA == <<1, 0, TextE501>>
ErrB == <<1, 0, TextW291>>
ErrC == <<3, 0, TextW291>>
ErrN == <<2, 0, TextW291>>

Reports == {<<>>, <<ErrA, ErrC>>, <<ErrN, ErrB>>}

BaseInput ==
    [named |-> TRUE, python |-> TRUE, skip_file |-> FALSE,
     filename |-> <<"proj", "pkg", "a.py">>, folders |-> {<<"proj">>},
     dirty |-> FALSE, scratch |-> FALSE,
     vs |-> [python_interpreter |-> "internal"],
     gs |-> [highlight |-> TRUE],
     report |-> <<ErrA, ErrC>>,
     interp_exists |-> TRUE, linter_in_plugin |-> TRUE,
     linter_in_packages |-> TRUE]

\* what the linter reports varies
ReportInputs == {[BaseInput EXCEPT !.report = r] : r \in Reports}

\* the file has no name, is not Python, or carries a file-level noqa
FileInputs ==
    {[BaseInput EXCEPT !.named = FALSE],
     [BaseInput EXCEPT !.python = FALSE],
     [BaseInput EXCEPT !.skip_file = TRUE]}

\* 'ignore_files': matching the basename, matching a folder of the
\* relative path, matching nothing, not a list
IgnoreFilesInputs ==
    {[BaseInput EXCEPT !.vs = @ @@ ("ignore_files" :> p)] :
        p \in {[type |-> "list", items |-> <<"b.py", "a.py">>],
               [type |-> "list", items |-> <<"pkg">>],
               [type |-> "list", items |-> <<"proj", "b.py">>],
               [type |-> "int", items |-> <<>>]}}

\* 'highlight', 'gutter_marks', 'popup' and 'report_on_success'
DisplaySettings ==
    {"highlight" :> TRUE,
     "highlight" :> FALSE,
     <<>>,
     "gutter_marks" :> "dot",
     "gutter_marks" :> "star",
     ("highlight" :> TRUE) @@ ("gutter_marks" :> "cross"),
     "popup" :> FALSE,
     "report_on_success" :> TRUE}

DisplayInputs ==
    {[BaseInput EXCEPT !.gs = g] : g \in DisplaySettings}
    \cup {[BaseInput EXCEPT !.gs = g, !.report = <<>>] :
             g \in {"highlight" :> TRUE, "report_on_success" :> TRUE}}

\* 'python_interpreter' and the paths that exist
InterpreterInputs ==
    {[BaseInput EXCEPT !.vs = i, !.interp_exists = x,
                       !.linter_in_plugin = lp, !.linter_in_packages = lk] :
        i \in {<<>>, "python_interpreter" :> "", "python_interpreter" :> "auto",
               "python_interpreter" :> "internal",
               "python_interpreter" :> "/usr/bin/python3"},
        x \in BOOLEAN, lp \in BOOLEAN, lk \in BOOLEAN}

\* the view is dirty: run() saves it, and the editor calls on_post_save
SaveInputs ==
    {[BaseInput EXCEPT !.dirty = TRUE, !.scratch = sc, !.gs = @ @@ g,
                       !.vs = i, !.interp_exists = FALSE] :
        sc \in BOOLEAN,
        g \in {<<>>, "lint_on_save" :> FALSE},
        i \in {"python_interpreter" :> "internal",
               "python_interpreter" :> "/usr/bin/python3"}}

\* ------------------------------------------------------------------------
\* Initial state
\* ------------------------------------------------------------------------

NoPoll == [loaded |-> FALSE, lints |-> 0, ended |-> "no"]

InitCommon ==
    /\ ERRORS_IN_VIEWS = <<>>
    /\ regions = [v \in Views |-> <<>>]
    /\ status = [v \in Views |-> <<>>]
    /\ errors_list = [v \in Views |-> <<>>]
    /\ panel = [v \in Views |-> NoPanel]
    /\ last_selected_line = NoLine
    /\ timers = [v \in Views |-> [k \in 1..MaxLoads |-> 0]]
    /\ polls = [v \in Views |-> [k \in 1..MaxLoads |-> NoPoll]]
    /\ lastOp = [op |-> "init"]

\* every view is open in the window, loaded, with the cursor on its first row
Init ==
    /\ InitCommon
    /\ buffer = [v \in Views |-> ViewBuffer]
    /\ sel = [v \in Views |-> 0]
    /\ window = [v \in Views |-> "attached"]
    /\ loading = [v \in Views |-> FALSE]
    /\ active = 1

\* commit a world
Commit(w) ==
    /\ ERRORS_IN_VIEWS' = w.eiv
    /\ regions' = w.regions
    /\ status' = w.status
    /\ sel' = w.sel
    /\ errors_list' = w.errors_list
    /\ panel' = w.panel

\* ------------------------------------------------------------------------
\* Events
\* ------------------------------------------------------------------------

\* the user runs the 'flake8_lint' command on view v
RunCommand(v, Inputs) ==
    /\ window[v] = "attached"
    /\ \E inp \in Inputs :
        LET r == run(World, v, inp)
        IN /\ Commit(r.w)
           /\ lastOp' = [op |-> "run", view |-> v, inp |-> inp, trace |-> r.trace]
    /\ UNCHANGED <<buffer, last_selected_line, window, loading, active,
                   timers, polls>>

\* the user saves view v
PostSave(v, Inputs) ==
    /\ window[v] = "attached"
    /\ \E inp \in {i \in Inputs : ~i.dirty} : \E sc \in BOOLEAN :
        LET r == on_post_save(World, v, [inp EXCEPT !.scratch = sc], 0)
        IN /\ Commit(r.w)
           /\ lastOp' = [op |-> "on_post_save", view |-> v,
                         inp |-> [inp EXCEPT !.scratch = sc], trace |-> r.trace]
    /\ UNCHANGED <<buffer, last_selected_line, window, loading, active,
                   timers, polls>>

\* the cursor positions the user moves to: no selection, the start of the
\* first row, the start of the last row
CursorChoices(v) ==
    {NoSel, 0, text_point(buffer[v], Len(buffer[v]) - 1, 0)}

\* the selection of view v changes
SelectionModified(v) ==
    /\ window[v] = "attached"
    /\ \E p \in CursorChoices(v) : \E sc \in BOOLEAN :
        /\ p # sel[v]
        /\ LET r == on_selection_modified(
                        [World EXCEPT !.sel[v] = p], last_selected_line, v, sc)
           IN /\ Commit(r.w)
              /\ last_selected_line' = r.last
              /\ lastOp' = [op |-> "on_selection_modified", view |-> v,
                            scratch |-> sc]
    /\ UNCHANGED <<buffer, window, loading, active, timers, polls>>

\* the user picks item i of the quick panel of view v, or cancels it (-1)
PanelSelect(v) ==
    /\ panel[v].open
    /\ \E i \in (-1)..(Len(panel[v].items) - 1) :
        LET r == error_selected([World EXCEPT !.panel[v] = NoPanel], v, i)
        IN /\ Commit(r.w)
           /\ lastOp' = [op |-> "error_selected", view |-> v, item |-> i,
                         shown |-> IF i = -1 THEN <<>> ELSE panel[v].items[i + 1],
                         raised |-> r.raised]
    /\ UNCHANGED <<buffer, last_selected_line, window, loading, active,
                   timers, polls>>

\* the user closes view v
CloseView(v) ==
    /\ window[v] # "closed"
    /\ window' = [window EXCEPT ![v] = "closed"]
    /\ panel' = [panel EXCEPT ![v] = NoPanel]
    /\ active' = IF active = v THEN 0 ELSE active
    /\ lastOp' = [op |-> "close", view |-> v]
    /\ UNCHANGED <<buffer, ERRORS_IN_VIEWS, regions, status, sel, errors_list,
                   last_selected_line, loading, timers, polls>>

\* _lintOnLoad without the test that the view is still the active view
lintOnLoad_no_active_check(v, retry) ==
    IF ~retry THEN "timer"
    ELSE IF loading[v] THEN "timer"
    ELSE IF window[v] # "attached" THEN "timer"
    ELSE "lint"

\* Flake8LintBackground._lintOnLoad(view, retry): what the call does
\* ("timer": set_timeout of a retry, "stop": return, "lint": run_command)
lintOnLoad(v, retry) ==
    IF ~retry THEN "timer"
    ELSE IF loading[v] THEN "timer"
    ELSE IF window[v] # "attached" THEN "timer"
    ELSE IF active # v THEN "stop"
    ELSE "lint"

\* on_load reaches self._lintOnLoad(view)
on_load_polls(scratch, gs) == ~scratch /\ Get(gs, "lint_on_load", FALSE)

\* the effect of one call of _lintOnLoad for on_load event k of view v; a
\* call with retry set is a timer callback, which uses up its timer
LintOnLoadCall(v, k, retry, inp) ==
    LET outcome == lintOnLoad(v, retry)
        left == IF retry THEN timers[v][k] - 1 ELSE timers[v][k]
    IN /\ timers' = [timers EXCEPT ![v][k] =
                        IF outcome = "timer" THEN left + 1 ELSE left]
       /\ polls' = [polls EXCEPT ![v][k] =
                        [loaded |-> TRUE,
                         lints |-> IF outcome = "lint" THEN @.lints + 1 ELSE @.lints,
                         ended |-> IF outcome = "lint" THEN "lint"
                                   ELSE IF outcome = "stop" THEN "abandon"
                                   ELSE @.ended]]
       /\ IF outcome = "lint"
          THEN \E r \in {run(World, v, inp)} : Commit(r.w)
          ELSE UNCHANGED <<ERRORS_IN_VIEWS, regions, status, sel, errors_list,
                           panel>>

\* the next on_load event of view v
NextLoad(v) ==
    IF \E k \in 1..MaxLoads : ~polls[v][k].loaded
    THEN CHOOSE k \in 1..MaxLoads :
             ~polls[v][k].loaded /\ \A j \in 1..(k - 1) : polls[v][j].loaded
    ELSE 0

\* the lint a load starts runs on a file the linter has no complaint about
LoadLintInputs == {[BaseInput EXCEPT !.report = <<>>]}

LintOnLoadSettings == {<<>>, "lint_on_load" :> TRUE, "lint_on_load" :> FALSE}

\* the editor calls on_load for view v
OnLoad(v) ==
    /\ window[v] # "closed"
    /\ NextLoad(v) # 0
    /\ \E sc \in BOOLEAN : \E gs \in LintOnLoadSettings : \E inp \in LoadLintInputs :
        /\ lastOp' = [op |-> "on_load", view |-> v, ev |-> NextLoad(v),
                      scratch |-> sc, gs |-> gs]
        /\ IF on_load_polls(sc, gs)
           THEN LintOnLoadCall(v, NextLoad(v), FALSE, inp)
           ELSE /\ polls' = [polls EXCEPT ![v][NextLoad(v)].loaded = TRUE]
                /\ UNCHANGED <<ERRORS_IN_VIEWS, regions, status, sel,
                               errors_list, panel, timers>>
    /\ UNCHANGED <<buffer, last_selected_line, window, loading, active>>

\* a pending timer of on_load event k of view v fires
TimerFire(v, k) ==
    /\ timers[v][k] > 0
    /\ \E inp \in LoadLintInputs : LintOnLoadCall(v, k, TRUE, inp)
    /\ lastOp' = [op |-> "timer", view |-> v, ev |-> k,
                  outcome |-> lintOnLoad(v, TRUE),
                  tick |-> IF lastOp.op = "timer" THEN 1 - lastOp.tick ELSE 0]
    /\ UNCHANGED <<buffer, last_selected_line, window, loading, active>>

EnvOp == [op |-> "env"]

\* view v finishes loading
FinishLoading(v) ==
    /\ loading[v]
    /\ loading' = [loading EXCEPT ![v] = FALSE]
    /\ lastOp' = EnvOp
    /\ UNCHANGED <<buffer, ERRORS_IN_VIEWS, regions, status, sel, errors_list,
                   panel, last_selected_line, window, active, timers, polls>>

\* view v gets its window
AttachWindow(v) ==
    /\ window[v] = "none"
    /\ window' = [window EXCEPT ![v] = "attached"]
    /\ lastOp' = EnvOp
    /\ UNCHANGED <<buffer, ERRORS_IN_VIEWS, regions, status, sel, errors_list,
                   panel, last_selected_line, loading, active, timers, polls>>

\* another view becomes the window's active view
Activate(a) ==
    /\ a # active
    /\ IF a = 0 THEN TRUE ELSE window[a] = "attached"
    /\ active' = a
    /\ lastOp' = EnvOp
    /\ UNCHANGED <<buffer, ERRORS_IN_VIEWS, regions, status, sel, errors_list,
                   panel, last_selected_line, window, loading, timers, polls>>

\* ------------------------------------------------------------------------
\* Specifications
\* ------------------------------------------------------------------------

\* lint runs whose linter report varies; selections, panels, closing
CoreInputs == ReportInputs

Next ==
    \/ \E v \in Views : RunCommand(v, CoreInputs)
    \/ \E v \in Views : PostSave(v, {BaseInput})
    \/ \E v \in Views : SelectionModified(v)
    \/ \E v \in Views : PanelSelect(v)
    \/ \E v \in Views : CloseView(v)

Spec == Init /\ [][Next]_vars

\* lint runs whose file, 'ignore_files' and display settings vary
DisplayRunInputs == FileInputs \cup IgnoreFilesInputs \cup DisplayInputs

DisplayNext ==
    \/ \E v \in Views : RunCommand(v, DisplayRunInputs)
    \/ \E v \in Views : PanelSelect(v)

DisplaySpec == Init /\ [][DisplayNext]_vars

\* lint runs whose interpreter, paths and dirty flag vary
InterpreterRunInputs == InterpreterInputs \cup SaveInputs

InterpreterNext ==
    \/ \E v \in Views : RunCommand(v, InterpreterRunInputs)
    \/ \E v \in Views : PostSave(v, InterpreterInputs)
    \/ \E v \in Views : CloseView(v)

InterpreterSpec == Init /\ [][InterpreterNext]_vars

\* views that are still loading or have no window yet, and lint on load
LoadInit ==
    /\ InitCommon
    /\ buffer = [v \in Views |-> ViewBuffer]
    /\ sel = [v \in Views |-> 0]
    /\ window \in [Views -> {"none", "attached"}]
    /\ loading \in [Views -> BOOLEAN]
    /\ active \in {a \in {0} \cup Views : a = 0 \/ window[a] = "attached"}

LoadNext ==
    \/ \E v \in Views : OnLoad(v)
    \/ \E v \in Views : \E k \in 1..MaxLoads : TimerFire(v, k)
    \/ \E v \in Views : FinishLoading(v)
    \/ \E v \in Views : AttachWindow(v)
    \/ \E a \in {0} \cup Views : Activate(a)
    \/ \E v \in Views : CloseView(v)

LoadSpec == LoadInit /\ [][LoadNext]_vars

\* the editor runs every scheduled timer, every load finishes and every
\* open view that waits for its window gets it
LoadFairness ==
    /\ \A v \in Views : \A k \in 1..MaxLoads : WF_vars(TimerFire(v, k))
    /\ \A v \in Views : WF_vars(FinishLoading(v))
    /\ \A v \in Views : WF_vars(AttachWindow(v))

FairLoadSpec == LoadInit /\ [][LoadNext]_vars /\ LoadFairness

\* show_errors on every short error list and combination of settings
ShowErrors ==
    {<<line, 0, TextE501>> : line \in 1..Len(Buffer1)}
    \cup {<<line, 2, TextE501>> : line \in 1..Len(Buffer1)}
    \cup {<<line, 0, TextW291>> : line \in 1..Len(Buffer1)}

RECURSIVE SeqsUpTo(_, _)
SeqsUpTo(S, n) ==
    IF n = 0 THEN {<<>>}
    ELSE LET shorter == SeqsUpTo(S, n - 1)
         IN shorter \cup {Append(q, x) : q \in {t \in shorter : Len(t) = n - 1},
                                         x \in S}

ShowViewSettings ==
    {a @@ b : a \in {<<>>, "select" :> <<PrefE>>,
                     "select" :> <<PrefW2, PrefE501>>},
              b \in {<<>>, "ignore" :> <<PrefE>>}}

ShowGlobalSettings ==
    {h @@ m @@ q : h \in {<<>>, "highlight" :> TRUE},
                   m \in {<<>>, "gutter_marks" :> "dot"},
                   q \in {<<>>, "popup" :> FALSE}}
    \cup {"gutter_marks" :> "star"}

\* run() has linted view 1 and is about to call show_errors
ShowInit ==
    /\ ERRORS_IN_VIEWS = <<>>
    /\ regions = [v \in Views |-> <<>>]
    /\ status = [v \in Views |-> <<>>]
    /\ panel = [v \in Views |-> NoPanel]
    /\ last_selected_line = NoLine
    /\ timers = [v \in Views |-> [k \in 1..MaxLoads |-> 0]]
    /\ polls = [v \in Views |-> [k \in 1..MaxLoads |-> NoPoll]]
    /\ buffer = [v \in Views |-> Buffer1]
    /\ sel = [v \in Views |-> 0]
    /\ window = [v \in Views |-> "attached"]
    /\ loading = [v \in Views |-> FALSE]
    /\ active = 1
    /\ \E report \in SeqsUpTo(ShowErrors, MaxErrs) \ {<<>>} :
        errors_list = [v \in Views |-> IF v = 1 THEN report ELSE <<>>]
    /\ \E vs \in ShowViewSettings : \E gs \in ShowGlobalSettings :
        lastOp = [op |-> "lint", view |-> 1, vs |-> vs, gs |-> gs]

ShowErrorsStep ==
    /\ lastOp.op = "lint"
    /\ LET r == show_errors(World, lastOp.view, lastOp.vs, lastOp.gs, 0)
       IN /\ Commit(r.w)
          /\ lastOp' = [op |-> "show_errors", view |-> lastOp.view,
                        vs |-> lastOp.vs, gs |-> lastOp.gs,
                        report |-> errors_list[lastOp.view]]
    /\ UNCHANGED <<buffer, last_selected_line, window, loading, active,
                   timers, polls>>

ShowSpec == ShowInit /\ [][ShowErrorsStep]_vars

\* ------------------------------------------------------------------------
\* Properties
\* ------------------------------------------------------------------------

\* ERRORS_IN_VIEWS.get(view.id()), a missing entry read as no errors
ViewErrors(v) == IF v \in DOMAIN ERRORS_IN_VIEWS THEN ERRORS_IN_VIEWS[v] ELSE <<>>

\* the rows of view v that the outputs of show_errors mention
RegionRows(v) ==
    {rowcol_row(buffer[v], regions[v][i][1]) : i \in 1..Len(regions[v])}

PanelRows(v) == {panel[v].items[i][2][1] - 1 : i \in 1..Len(panel[v].items)}

ListRows(v) == {errors_list[v][i][1] - 1 : i \in 1..Len(errors_list[v])}

DictRows(v) == DOMAIN ViewErrors(v)

\* the rows of a buffer whose text, stripped and lower-cased, ends with '# noqa'
NoqaRows(buf) ==
    {row \in 0..(Len(buf) - 1) : EndsWith(Lower(Strip(buf[row + 1])), NoqaTag)}

\* the code of an error text starts with one of the 'select' prefixes
Selected(select, text) ==
    \E i \in 1..Len(select) : StartsWith(ErrorCode(text), select[i])

\* C3: with a non-empty 'select', show_errors shows only the selected
\* errors: every quick-panel item, every recorded error and every
\* highlighted row belongs to an error whose code starts with a 'select'
\* prefix.
C3_OnlySelectedShown ==
    (lastOp.op = "show_errors" /\ GetOrEmpty(lastOp.vs, "select") # <<>>) =>
        LET v == lastOp.view
            select == lastOp.vs["select"]
            chosen == {i \in 1..Len(lastOp.report) :
                          Selected(select, lastOp.report[i][3])}
        IN /\ \A i \in 1..Len(panel[v].items) :
                  Selected(select, panel[v].items[i][1])
           /\ \A row \in DictRows(v) : \A j \in 1..Len(ViewErrors(v)[row]) :
                  Selected(select, ViewErrors(v)[row][j])
           /\ RegionRows(v) \subseteq {lastOp.report[i][1] - 1 : i \in chosen}

\* C4: after show_errors, no row whose text ends with '# noqa' (stripped,
\* case-insensitive) is mentioned by the quick panel, by errors_list, by the
\* 'flake8-errors' regions or by ERRORS_IN_VIEWS of the view.
C4_NoqaSuppressed ==
    lastOp.op = "show_errors" =>
        LET v == lastOp.view
        IN \A row \in NoqaRows(buffer[v]) :
               row \notin (PanelRows(v) \cup ListRows(v) \cup RegionRows(v)
                           \cup DictRows(v))

\* show_errors ran on a report with an error on a noqa row ('# NOQA ' in
\* capitals) and an error it shows in the panel, the regions and the dictionary
C4_Witness ==
    /\ lastOp.op = "show_errors"
    /\ \E i \in 1..Len(lastOp.report) : lastOp.report[i][1] = 2
    /\ panel[lastOp.view].items # <<>>
    /\ regions[lastOp.view] # <<>>
    /\ DictRows(lastOp.view) # {}
    /\ errors_list[lastOp.view] # <<>>

\* the file matches 'ignore_files': it is a list, and one of its patterns
\* matches a part of the basename or of a path relative to a folder
IgnoredByPatterns(inp) ==
    LET patterns == Get(inp.vs, "ignore_files", NoPatterns)
    IN /\ patterns.type = "list"
       /\ \E path \in CheckPaths(inp.filename, inp.folders) :
              filename_match(path, patterns.items)

\* the run gets as far as the linter
ReachesLinter(inp) ==
    inp.named /\ inp.python /\ ~inp.skip_file /\ ~IgnoredByPatterns(inp)

RECURSIVE Dedup(_)
\* a sequence without its repeated elements, first occurrences kept
Dedup(q) ==
    IF q = <<>> THEN <<>>
    ELSE LET front == Dedup(SubSeq(q, 1, Len(q) - 1))
         IN IF InSeq(q[Len(q)], front) THEN front ELSE Append(front, q[Len(q)])

\* the errors of a report that the filters keep: not on a noqa row, selected
\* when 'select' is set, not ignored
KeptErrors(report, buf, vs) ==
    LET select == GetOrEmpty(vs, "select")
        ignore == GetOrEmpty(vs, "ignore")
        Keep(e) == /\ (e[1] - 1) \notin NoqaRows(buf)
                   /\ select = <<>> \/ Selected(select, e[3])
                   /\ ~Selected(ignore, e[3])
    IN SelectSeq(report, Keep)

\* the kept errors keyed by row
ExpectedByLine(report, buf, vs) ==
    LET kept == KeptErrors(report, buf, vs)
        OnRow(row) == LET Here(e) == e[1] - 1 = row IN SelectSeq(kept, Here)
    IN [row \in {kept[i][1] - 1 : i \in 1..Len(kept)} |->
           Dedup([i \in 1..Len(OnRow(row)) |-> OnRow(row)[i][3]])]

\* C1: after a run that reaches the linter, ERRORS_IN_VIEWS of the view holds
\* exactly the filtered errors of that run, keyed by row (none when the
\* linter reports none).
C1_RecomputedOnEveryRun ==
    (lastOp.op = "run" /\ ReachesLinter(lastOp.inp)) =>
        ViewErrors(lastOp.view)
            = ExpectedByLine(lastOp.inp.report, buffer[lastOp.view], lastOp.inp.vs)

\* C2: ERRORS_IN_VIEWS has entries for open views only.
C2_DiscardedOnClose ==
    DOMAIN ERRORS_IN_VIEWS \subseteq {v \in Views : window[v] # "closed"}

\* C9: after on_selection_modified on a non-scratch view, the 'flake8-tip'
\* status is the text of the errors recorded for the cursor's row, and is
\* cleared when the row has none or the selection is empty.
C9_StatusFollowsSelection ==
    (lastOp.op = "on_selection_modified" /\ ~lastOp.scratch) =>
        LET v == lastOp.view
            row == rowcol_row(buffer[v], sel[v])
        IN IF sel[v] # NoSel /\ row \in DictRows(v)
           THEN status[v] = StatusText(ViewErrors(v)[row])
           ELSE status[v] = <<>>

\* C10: error_selected with an index i >= 0 finds errors_list[i], which is
\* the error shown as item i of the panel (same line, same text), and moves
\* the cursor to that error's line.
C10_SelectionPointsAtShownError ==
    (lastOp.op = "error_selected" /\ lastOp.item >= 0) =>
        LET v == lastOp.view
            i == lastOp.item + 1
        IN /\ ~lastOp.raised
           /\ i <= Len(errors_list[v])
           /\ errors_list[v][i][3] = lastOp.shown[1]
           /\ errors_list[v][i][1] = lastOp.shown[2][1]
           /\ sel[v] # NoSel
           /\ rowcol_row(buffer[v], sel[v]) = lastOp.shown[2][1] - 1

\* 'highlight' is off and 'gutter_marks' is no valid mark
MarksOff(gs) ==
    /\ ~Get(gs, "highlight", FALSE)
    /\ Get(gs, "gutter_marks", "") \notin {"dot", "circle", "bookmark", "cross"}

\* C8: a run on a named Python file without file-level noqa erases the
\* 'flake8-errors' regions and the 'flake8-tip' status first; after it the
\* status is unset, regions are set only with 'highlight' on or a valid
\* gutter mark, and a run that finds no errors, has both turned off, or is
\* on a file matching 'ignore_files' leaves no regions.
C8_ClearedByRun ==
    (lastOp.op = "run" /\ lastOp.inp.named /\ lastOp.inp.python
        /\ ~lastOp.inp.skip_file) =>
        LET v == lastOp.view
            inp == lastOp.inp
        IN /\ Len(lastOp.trace) >= 2
           /\ lastOp.trace[1] = Event("erase_regions", 0)
           /\ lastOp.trace[2] = Event("erase_status", 0)
           /\ status[v] = <<>>
           /\ regions[v] # <<>> => ~MarksOff(inp.gs)
           /\ (inp.report = <<>> \/ MarksOff(inp.gs) \/ IgnoredByPatterns(inp))
                  => regions[v] = <<>>

\* a run ignored by 'ignore_files', or made with highlight and marks off, on
\* a view whose cursor was moved by error_selected to a row with recorded
\* errors (so an earlier run had set regions and the status)
C8_Witness ==
    /\ lastOp.op = "run"
    /\ lastOp.inp.named /\ lastOp.inp.python /\ ~lastOp.inp.skip_file
    /\ IgnoredByPatterns(lastOp.inp) \/ (MarksOff(lastOp.inp.gs)
                                          /\ lastOp.inp.report # <<>>)
    /\ sel[lastOp.view] = text_point(buffer[lastOp.view], 2, 0)
    /\ 2 \in DictRows(lastOp.view)
    /\ regions[lastOp.view] = <<>>
    /\ status[lastOp.view] = <<>>

\* how often an event occurs in a trace, and where it occurs first
Count(trace, e) == Cardinality({i \in 1..Len(trace) : trace[i] = e})

First(trace, e) ==
    CHOOSE i \in 1..Len(trace) :
        trace[i] = e /\ \A j \in 1..(i - 1) : trace[j] # e

\* the run at nesting depth d of the last handler got as far as the
\* interpreter (depth 1: the run on_post_save starts from run's save)
RunAtDepth(d) ==
    LET inp == lastOp.inp
        saves == ~inp.scratch /\ Get(inp.gs, "lint_on_save", TRUE)
    IN /\ ReachesLinter(inp)
       /\ CASE lastOp.op = "run" -> d = 0 \/ (inp.dirty /\ saves)
            [] lastOp.op = "on_post_save" -> d = 0 /\ saves
            [] OTHER -> FALSE

\* C5: in every lint run that gets to the interpreter, a missing explicit
\* interpreter and a linter found in neither place are each reported by one
\* dialog shown before lint_external is called; no dialog is shown twice;
\* with an empty or 'internal' interpreter neither dialog is shown.
C5_DialogsForMissingPaths ==
    lastOp.op \in {"run", "on_post_save"} =>
        \A d \in {0, 1} : RunAtDepth(d) =>
            LET inp == lastOp.inp
                t == lastOp.trace
                interpreter == Get(inp.vs, "python_interpreter", "auto")
                explicit == interpreter \notin {"", "internal", "auto"}
                dlgI == Event("dialog_interpreter", d)
                dlgL == Event("dialog_linter", d)
                ext == Event("lint_external", d)
            IN /\ Count(t, dlgI) <= 1
               /\ Count(t, dlgL) <= 1
               /\ (explicit /\ ~inp.interp_exists) =>
                      /\ Count(t, dlgI) = 1
                      /\ Count(t, ext) = 1
                      /\ First(t, dlgI) < First(t, ext)
               /\ (explicit /\ ~inp.linter_in_plugin /\ ~inp.linter_in_packages) =>
                      /\ Count(t, dlgL) = 1
                      /\ Count(t, ext) = 1
                      /\ First(t, dlgL) < First(t, ext)
               /\ interpreter \in {"", "internal"} =>
                      Count(t, dlgI) = 0 /\ Count(t, dlgL) = 0

\* a run with an explicit interpreter that does not exist and no lint.py in
\* either place: both dialogs, then lint_external
C5_Witness ==
    /\ lastOp.op = "run"
    /\ Get(lastOp.inp.vs, "python_interpreter", "auto") = "/usr/bin/python3"
    /\ ~lastOp.inp.interp_exists
    /\ ~lastOp.inp.linter_in_plugin /\ ~lastOp.inp.linter_in_packages
    /\ Count(lastOp.trace, Event("dialog_interpreter", 0)) = 1
    /\ Count(lastOp.trace, Event("dialog_linter", 0)) = 1
    /\ Count(lastOp.trace, Event("lint_external", 0)) = 1

\* C6: an on_load event issues the lint command at most once, never in
\* on_load itself, and only in a timer callback that finds the view loaded,
\* in a window and active; a callback that finds it loaded, in a window and
\* not active ends the polling without a lint; on_load on a scratch view or
\* with 'lint_on_load' off schedules no timer and issues no lint.
C6_LintOnLoadOrdering ==
    /\ \A v \in Views : \A k \in 1..MaxLoads :
        /\ polls[v][k].lints <= 1
        /\ polls[v][k].ended = "abandon" =>
               polls[v][k].lints = 0 /\ timers[v][k] = 0
    /\ lastOp.op = "on_load" =>
        LET p == polls[lastOp.view][lastOp.ev]
            n == timers[lastOp.view][lastOp.ev]
        IN /\ p.lints = 0
           /\ IF ~lastOp.scratch /\ Get(lastOp.gs, "lint_on_load", FALSE)
              THEN n = 1
              ELSE n = 0 /\ p.ended = "no"
    /\ lastOp.op = "timer" =>
        LET v == lastOp.view
            p == polls[v][lastOp.ev]
            ready == ~loading[v] /\ window[v] = "attached"
        IN /\ p.lints = 1 => ready /\ active = v
           /\ (ready /\ active # v) =>
                  p.ended = "abandon" /\ timers[v][lastOp.ev] = 0
           /\ ~ready => p.lints = 0 /\ timers[v][lastOp.ev] = 1

\* a timer callback that follows an earlier timer callback has issued the
\* lint command, and no timer of that on_load event is left
C6_Witness ==
    /\ lastOp.op = "timer"
    /\ lastOp.outcome = "lint"
    /\ lastOp.tick = 1
    /\ polls[lastOp.view][lastOp.ev].lints = 1
    /\ timers[lastOp.view][lastOp.ev] = 0

\* C7: under fair firing of timers, the polling of every on_load event ends:
\* whenever a retry timer is pending, later none is.
C7_PollingEnds ==
    \A v \in Views : \A k \in 1..MaxLoads :
        (timers[v][k] > 0) ~> (timers[v][k] = 0)

====
